---- MODULE Spec2Model ----
(***************************************************************************)
(* Model of aws_test_publisher_debug.py: main() validates the endpoint and *)
(* three credential files, builds the MQTT client, connects with bounded   *)
(* retries and backoff, publishes `count` telemetry messages and           *)
(* disconnects.  The model starts after argument parsing succeeded         *)
(* (line 91); the parsed arguments and the environment are the inputs.     *)
(*                                                                         *)
(* Units: durations are in milliseconds (2.0 s = 2000), random draws and   *)
(* un-rounded readings in thousandths (9.965 = 9965), rounded readings in  *)
(* tenths (30.0 = 300).                                                    *)
(***************************************************************************)
EXTENDS Integers, Sequences, FiniteSets, TLC

VARIABLES
    pc,         \* position of main()
    endpoint,   \* AWS_ENDPOINT                         (input)
    files,      \* the three credential files on disk   (input)
    count,      \* args.count                           (input)
    interval,   \* args.interval, in ms                 (input)
    fileIdx,    \* index of the credential file the for loop of line 110 is at
    attempt,    \* i of connect_with_retry
    delay,      \* delay of connect_with_retry, in ms
    msgIdx,     \* i of the publish loop (0-based)
    payload,    \* the last payload built
    rnd,        \* the last two random draws, in thousandths
    trace,      \* every external call made so far, in order
    exitStatus  \* the process exit status, -1 while running

vars == <<pc, endpoint, files, count, interval, fileIdx, attempt, delay,
          msgIdx, payload, rnd, trace, exitStatus>>

----------------------------------------------------------------------------
(* Bounds and program constants *)

MaxCount == 3

ATTEMPTS == 3

INITIAL_DELAY == 2000

ENDPOINT_PLACEHOLDER == "TU_ENDPOINT_AWS"

Endpoints == {ENDPOINT_PLACEHOLDER, "a1b2c3-ats.iot.us-east-1.amazonaws.com"}

Intervals == {0 - 1000, 0, 2000}

DEVICE == "test-device"

----------------------------------------------------------------------------
(* Strings that the code inspects character by character *)

LABEL_ROOT_CA == <<"R", "O", "O", "T", "_", "C", "A">>

LABEL_PRIVATE_KEY == <<"P", "R", "I", "V", "A", "T", "E", "_", "K", "E", "Y">>

LABEL_CERTIFICATE == <<"C", "E", "R", "T", "I", "F", "I", "C", "A", "T", "E">>

Labels == <<LABEL_ROOT_CA, LABEL_PRIVATE_KEY, LABEL_CERTIFICATE>>

BEGIN_CERTIFICATE == <<"-", "-", "-", "-", "-", "B", "E", "G", "I", "N", " ", "C", "E", "R", "T", "I", "F", "I", "C", "A", "T", "E", "-", "-", "-", "-", "-">>

BEGIN_RSA_PRIVATE_KEY == <<"-", "-", "-", "-", "-", "B", "E", "G", "I", "N", " ", "R", "S", "A", " ", "P", "R", "I", "V", "A", "T", "E", " ", "K", "E", "Y", "-", "-", "-", "-", "-">>

BEGIN_PRIVATE_KEY == <<"-", "-", "-", "-", "-", "B", "E", "G", "I", "N", " ", "P", "R", "I", "V", "A", "T", "E", " ", "K", "E", "Y", "-", "-", "-", "-", "-">>

Whitespace == {" ", "\n", "\t", "\r"}

\* s.startswith(prefix)
StartsWith(s, prefix) ==
    /\ Len(s) >= Len(prefix)
    /\ SubSeq(s, 1, Len(prefix)) = prefix

\* needle in s
Contains(s, needle) ==
    \E k \in 0..(Len(s) - Len(needle)) :
        SubSeq(s, k + 1, k + Len(needle)) = needle

RECURSIVE LStrip(_)
LStrip(s) ==
    IF s # <<>> /\ Head(s) \in Whitespace THEN LStrip(Tail(s)) ELSE s

RECURSIVE RStrip(_)
RStrip(s) ==
    IF s # <<>> /\ s[Len(s)] \in Whitespace
    THEN RStrip(SubSeq(s, 1, Len(s) - 1))
    ELSE s

\* s.strip()
Strip(s) == RStrip(LStrip(s))

----------------------------------------------------------------------------
(* The credential files the environment can hold.  `line` is what          *)
(* f.readline() returns; a file that is not valid UTF-8 (a DER encoded     *)
(* certificate) makes readline raise UnicodeDecodeError.                   *)

MissingFile == [exists |-> FALSE, utf8 |-> TRUE, line |-> <<>>]

BinaryFile == [exists |-> TRUE, utf8 |-> FALSE, line |-> <<>>]

TextFile(firstLine) == [exists |-> TRUE, utf8 |-> TRUE, line |-> firstLine]

FileStates ==
    { MissingFile, BinaryFile,
      TextFile(<<>>),
      TextFile(BEGIN_CERTIFICATE \o <<"\n">>),
      TextFile(BEGIN_RSA_PRIVATE_KEY \o <<"\r", "\n">>),
      TextFile(BEGIN_PRIVATE_KEY \o <<"\n">>) }

\* os.path.isfile(path)
IsFile(f) == f.exists

\* the two format tests of assert_file: TRUE when a warning is printed
FormatWarning(label, first_line) ==
    IF Contains(label, LABEL_CERTIFICATE) /\ ~StartsWith(first_line, BEGIN_CERTIFICATE)
    THEN TRUE
    ELSE IF /\ Contains(label, LABEL_PRIVATE_KEY)
            /\ ~(\/ StartsWith(first_line, BEGIN_RSA_PRIVATE_KEY)
                 \/ StartsWith(first_line, BEGIN_PRIVATE_KEY))
    THEN TRUE
    ELSE FALSE

----------------------------------------------------------------------------
(* The trace of external calls *)

Ev(op, arg, ok) == [op |-> op, arg |-> arg, ok |-> ok]

Indices(op) == {k \in 1..Len(trace) : trace[k].op = op}

NumCalls(op) == Cardinality(Indices(op))

RECURSIVE SleptMs(_)
SleptMs(t) ==
    IF t = <<>> THEN 0
    ELSE SleptMs(SubSeq(t, 1, Len(t) - 1))
         + (IF t[Len(t)].op = "sleep" /\ t[Len(t)].ok THEN t[Len(t)].arg ELSE 0)

\* int(time.time()), counted from the start of the run
UnixTime(t) == SleptMs(t) \div 1000

----------------------------------------------------------------------------
(* Pure helpers of connect_with_retry and of the publish loop *)

\* bug: the placeholder test compares with the empty string
EndpointUnconfigured_Empty(e) == e = ""

\* AWS_ENDPOINT == "TU_ENDPOINT_AWS"
EndpointUnconfigured(e) == e = ENDPOINT_PLACEHOLDER

\* bug: the backoff doubles
NextDelay_Doubling(d) == d * 2

\* delay *= 1.5
NextDelay(d) == (d * 15) \div 10

\* bug: the final attempt is never recognised, the for loop just ends
IsFinalAttempt_OffByOne(i, attempts) == i = attempts + 1

\* if i == attempts
IsFinalAttempt(i, attempts) == i = attempts

\* time.sleep(secs) raises ValueError for a negative length
SleepAccepts(ms) == ms >= 0

\* bug: a sleep follows every message, the last one too
SleepsAfter_Every(i, n) == i < n

\* if i < args.count - 1
SleepsAfter(i, n) == i < n - 1

\* round(x, 1): x in thousandths, the result in tenths; ties go to the even digit
Round1(x) ==
    LET q == x \div 100
        r == x % 100
    IN  IF r < 50 THEN q
        ELSE IF r > 50 THEN q + 1
        ELSE IF q % 2 = 0 THEN q ELSE q + 1

\* random.uniform(0, hi) is hi * random() with random() in [0, 1): the draws
\* 0.005, 0.015, ..., hi - 0.005, one in every cell of width 0.01
UniformDraws(hi) == {10 * d + 5 : d \in 0..(hi * 100 - 1)}

\* bug: the temperature is computed from the humidity draw
MakePayload_WrongDraw(i, t, h, now) ==
    [ device      |-> DEVICE,
      messageId   |-> i + 1,
      temperature |-> Round1(20 * 1000 + h),
      humidity    |-> Round1(50 * 1000 + h),
      timestamp   |-> now,
      status      |-> "active" ]

\* the payload of lines 145-152 for loop index i and draws t, h
MakePayload(i, t, h, now) ==
    [ device      |-> DEVICE,
      messageId   |-> i + 1,
      temperature |-> Round1(20 * 1000 + t),
      humidity    |-> Round1(50 * 1000 + h),
      timestamp   |-> now,
      status      |-> "active" ]

NoPayload ==
    [ device |-> "", messageId |-> 0, temperature |-> 0, humidity |-> 0,
      timestamp |-> 0, status |-> "" ]

\* the draws the runs of main() are explored with
TempSamples == {5, 5005, 9965}

HumSamples == {5, 10005, 19965}

----------------------------------------------------------------------------
(* main() *)

Init ==
    /\ pc = "endpoint"
    /\ endpoint \in Endpoints
    /\ files \in [1..3 -> FileStates]
    /\ count \in (0 - 1)..MaxCount
    /\ interval \in Intervals
    /\ fileIdx = 1
    /\ attempt = 1
    /\ delay = INITIAL_DELAY
    /\ msgIdx = 0
    /\ payload = NoPayload
    /\ rnd = <<0, 0>>
    /\ trace = <<>>
    /\ exitStatus = 0 - 1

\* sys.exit(status)
Exit(status, t) ==
    /\ pc' = "done"
    /\ exitStatus' = status
    /\ trace' = t

Inputs == <<endpoint, files, count, interval>>

\* lines 101-105
EndpointMissing ==
    /\ pc = "endpoint"
    /\ EndpointUnconfigured(endpoint)
    /\ Exit(1, trace)
    /\ UNCHANGED <<Inputs, fileIdx, attempt, delay, msgIdx, payload, rnd>>

EndpointOk ==
    /\ pc = "endpoint"
    /\ ~EndpointUnconfigured(endpoint)
    /\ pc' = "files"
    /\ UNCHANGED <<Inputs, fileIdx, attempt, delay, msgIdx, payload, rnd, trace, exitStatus>>

\* bug: a missing file is reported and the loop goes on
AssertFileMissing_Ignored ==
    /\ pc = "files"
    /\ ~IsFile(files[fileIdx])
    /\ trace' = Append(trace, Ev("isfile", fileIdx, FALSE))
    /\ IF fileIdx < Len(Labels)
       THEN /\ fileIdx' = fileIdx + 1
            /\ pc' = "files"
       ELSE /\ fileIdx' = fileIdx
            /\ pc' = "build"
    /\ UNCHANGED <<Inputs, attempt, delay, msgIdx, payload, rnd, exitStatus>>

\* assert_file raises FileNotFoundError, main catches it and exits (lines 30-31, 112-116)
AssertFileMissing ==
    /\ pc = "files"
    /\ ~IsFile(files[fileIdx])
    /\ Exit(1, Append(trace, Ev("isfile", fileIdx, FALSE)))
    /\ UNCHANGED <<Inputs, fileIdx, attempt, delay, msgIdx, payload, rnd>>

\* readline raises UnicodeDecodeError, which nothing catches (lines 36-37)
AssertFileUndecodable ==
    /\ pc = "files"
    /\ IsFile(files[fileIdx])
    /\ ~files[fileIdx].utf8
    /\ Exit(1, trace \o << Ev("isfile", fileIdx, TRUE), Ev("open", fileIdx, FALSE),
                           Ev("crash", fileIdx, FALSE) >>)
    /\ UNCHANGED <<Inputs, fileIdx, attempt, delay, msgIdx, payload, rnd>>

\* assert_file returns, with or without a warning (lines 32-43), and the loop goes on
AssertFileOk ==
    /\ pc = "files"
    /\ IsFile(files[fileIdx])
    /\ files[fileIdx].utf8
    /\ LET first_line == Strip(files[fileIdx].line)
           seen == << Ev("isfile", fileIdx, TRUE), Ev("open", fileIdx, TRUE) >>
           warn == IF FormatWarning(Labels[fileIdx], first_line)
                   THEN << Ev("warn", fileIdx, TRUE) >> ELSE << >>
       IN  trace' = trace \o seen \o warn \o << Ev("checked", fileIdx, TRUE) >>
    /\ IF fileIdx < Len(Labels)
       THEN /\ fileIdx' = fileIdx + 1
            /\ pc' = "files"
       ELSE /\ fileIdx' = fileIdx
            /\ pc' = "build"
    /\ UNCHANGED <<Inputs, attempt, delay, msgIdx, payload, rnd, exitStatus>>

\* build_client raises and main exits (lines 121-125)
BuildClientFails ==
    /\ pc = "build"
    /\ Exit(1, Append(trace, Ev("build", 0, FALSE)))
    /\ UNCHANGED <<Inputs, fileIdx, attempt, delay, msgIdx, payload, rnd>>

\* build_client returns the configured client (lines 46-55, 122)
BuildClientOk ==
    /\ pc = "build"
    /\ pc' = "connect"
    /\ trace' = Append(trace, Ev("build", 0, TRUE))
    /\ attempt' = 1
    /\ delay' = INITIAL_DELAY
    /\ UNCHANGED <<Inputs, fileIdx, msgIdx, payload, rnd, exitStatus>>

\* c.connect() succeeds and connect_with_retry returns (lines 62-65)
ConnectOk ==
    /\ pc = "connect"
    /\ pc' = "publish"
    /\ trace' = Append(trace, Ev("connect", attempt, TRUE))
    /\ msgIdx' = 0
    /\ UNCHANGED <<Inputs, fileIdx, attempt, delay, payload, rnd, exitStatus>>

\* c.connect() raises: re-raise on the final attempt, else go to sleep (lines 66-79)
ConnectFails ==
    /\ pc = "connect"
    /\ IF IsFinalAttempt(attempt, ATTEMPTS)
       THEN /\ pc' = "connect_raised"
            /\ trace' = trace \o << Ev("connect", attempt, FALSE), Ev("raise", attempt, FALSE) >>
       ELSE /\ pc' = "backoff"
            /\ trace' = Append(trace, Ev("connect", attempt, FALSE))
    /\ UNCHANGED <<Inputs, fileIdx, attempt, delay, msgIdx, payload, rnd, exitStatus>>

\* time.sleep(delay); delay *= 1.5; next i of the for loop, which returns
\* normally once range(1, attempts + 1) is used up (lines 60, 80-81)
Backoff ==
    /\ pc = "backoff"
    /\ trace' = Append(trace, Ev("sleep", delay, TRUE))
    /\ delay' = NextDelay(delay)
    /\ attempt' = attempt + 1
    /\ pc' = IF attempt + 1 <= ATTEMPTS THEN "connect" ELSE "publish"
    /\ UNCHANGED <<Inputs, fileIdx, msgIdx, payload, rnd, exitStatus>>

\* main catches what connect_with_retry raised and exits (lines 131-137)
ConnectGivesUp ==
    /\ pc = "connect_raised"
    /\ Exit(1, trace)
    /\ UNCHANGED <<Inputs, fileIdx, attempt, delay, msgIdx, payload, rnd>>

\* one iteration of the loop up to client.publish, which returns (lines 144-160)
PublishOk ==
    /\ pc = "publish"
    /\ msgIdx < count
    /\ \E t \in TempSamples, h \in HumSamples :
          /\ rnd' = <<t, h>>
          /\ payload' = MakePayload(msgIdx, t, h, UnixTime(trace))
          /\ trace' = Append(trace, Ev("publish", payload'.messageId, TRUE))
    /\ IF SleepsAfter(msgIdx, count)
       THEN /\ pc' = "interval"
            /\ msgIdx' = msgIdx
       ELSE /\ pc' = "publish"
            /\ msgIdx' = msgIdx + 1
    /\ UNCHANGED <<Inputs, fileIdx, attempt, delay, exitStatus>>

\* bug: the try block sits inside the loop, so a failed publish is skipped over
PublishFails_Continues ==
    /\ pc = "publish"
    /\ msgIdx < count
    /\ \E t \in TempSamples, h \in HumSamples :
          /\ rnd' = <<t, h>>
          /\ payload' = MakePayload(msgIdx, t, h, UnixTime(trace))
          /\ trace' = Append(trace, Ev("publish", payload'.messageId, FALSE))
    /\ pc' = "publish"
    /\ msgIdx' = msgIdx + 1
    /\ UNCHANGED <<Inputs, fileIdx, attempt, delay, exitStatus>>

\* bug: no finally block, a failed publish ends main without a disconnect
PublishFails_NoCleanup ==
    /\ pc = "publish"
    /\ msgIdx < count
    /\ \E t \in TempSamples, h \in HumSamples :
          /\ rnd' = <<t, h>>
          /\ payload' = MakePayload(msgIdx, t, h, UnixTime(trace))
          /\ Exit(0, Append(trace, Ev("publish", payload'.messageId, FALSE)))
    /\ UNCHANGED <<Inputs, fileIdx, attempt, delay, msgIdx>>

\* client.publish raises: the except clause of line 165 ends the loop
PublishFails ==
    /\ pc = "publish"
    /\ msgIdx < count
    /\ \E t \in TempSamples, h \in HumSamples :
          /\ rnd' = <<t, h>>
          /\ payload' = MakePayload(msgIdx, t, h, UnixTime(trace))
          /\ trace' = Append(trace, Ev("publish", payload'.messageId, FALSE))
    /\ pc' = "disconnect"
    /\ UNCHANGED <<Inputs, fileIdx, attempt, delay, msgIdx, exitStatus>>

\* time.sleep(args.interval) between two messages (line 160)
IntervalSleep ==
    /\ pc = "interval"
    /\ SleepAccepts(interval)
    /\ trace' = Append(trace, Ev("sleep", interval, TRUE))
    /\ msgIdx' = msgIdx + 1
    /\ pc' = "publish"
    /\ UNCHANGED <<Inputs, fileIdx, attempt, delay, payload, rnd, exitStatus>>

\* time.sleep(args.interval) raises ValueError, caught at line 165
IntervalRejected ==
    /\ pc = "interval"
    /\ ~SleepAccepts(interval)
    /\ trace' = Append(trace, Ev("sleep", interval, FALSE))
    /\ pc' = "disconnect"
    /\ UNCHANGED <<Inputs, fileIdx, attempt, delay, msgIdx, payload, rnd, exitStatus>>

\* range(args.count) is used up (lines 162-163)
AllSent ==
    /\ pc = "publish"
    /\ ~(msgIdx < count)
    /\ pc' = "disconnect"
    /\ UNCHANGED <<Inputs, fileIdx, attempt, delay, msgIdx, payload, rnd, trace, exitStatus>>

\* bug: a failed disconnect is escalated to exit status 1
Disconnect_Escalates ==
    /\ pc = "disconnect"
    /\ \E ok \in BOOLEAN :
          Exit(IF ok THEN 0 ELSE 1, Append(trace, Ev("disconnect", 0, ok)))
    /\ UNCHANGED <<Inputs, fileIdx, attempt, delay, msgIdx, payload, rnd>>

\* the finally block; main returns and the interpreter exits with 0 (lines 167-173)
Disconnect ==
    /\ pc = "disconnect"
    /\ \E ok \in BOOLEAN : Exit(0, Append(trace, Ev("disconnect", 0, ok)))
    /\ UNCHANGED <<Inputs, fileIdx, attempt, delay, msgIdx, payload, rnd>>

Next ==
    \/ EndpointMissing \/ EndpointOk
    \/ AssertFileMissing \/ AssertFileUndecodable \/ AssertFileOk
    \/ BuildClientFails \/ BuildClientOk
    \/ ConnectOk \/ ConnectFails \/ Backoff \/ ConnectGivesUp
    \/ PublishOk \/ PublishFails \/ IntervalSleep \/ IntervalRejected \/ AllSent
    \/ Disconnect

Spec == Init /\ [][Next]_vars
----------------------------------------------------------------------------
(* The payload construction of lines 145-152 on its own, over every draw   *)
(* of one reading combined with the sample draws of the other.             *)

PayloadDraws ==
    (UniformDraws(10) \X HumSamples) \cup (TempSamples \X UniformDraws(20))

InitPayload ==
    /\ pc = "payload"
    /\ endpoint \in Endpoints \ {ENDPOINT_PLACEHOLDER}
    /\ files = [k \in 1..3 |-> TextFile(BEGIN_CERTIFICATE \o <<"\n">>)]
    /\ count = MaxCount
    /\ interval = 0
    /\ fileIdx = 3
    /\ attempt = 1
    /\ delay = INITIAL_DELAY
    /\ msgIdx \in 0..(MaxCount - 1)
    /\ payload = NoPayload
    /\ rnd = <<0, 0>>
    /\ trace = <<>>
    /\ exitStatus = 0 - 1

BuildPayload ==
    /\ pc = "payload"
    /\ \E d \in PayloadDraws :
          /\ rnd' = d
          /\ payload' = MakePayload(msgIdx, d[1], d[2], UnixTime(trace))
    /\ pc' = "built"
    /\ UNCHANGED <<Inputs, fileIdx, attempt, delay, msgIdx, trace, exitStatus>>

NextPayload == BuildPayload

SpecPayload == InitPayload /\ [][NextPayload]_vars

----------------------------------------------------------------------------
(* Vocabulary of the properties *)

SomeFileMissing == \E k \in 1..3 : ~files[k].exists

ConnectedAt == {k \in Indices("connect") : trace[k].ok}

Connected == ConnectedAt # {}

FailedConnects == {k \in Indices("connect") : ~trace[k].ok}

FailedPublishes == {k \in Indices("publish") : ~trace[k].ok}

\* 2.0 * 1.5^(j-1) seconds, in ms
ExpectedBackoff(j) == (2000 * 3^(j - 1)) \div 2^(j - 1)

Events == {trace[k] : k \in 1..Len(trace)}

\* the PEM header assert_file is meant to find in the k-th credential file:
\* a private key header in PRIVATE_KEY, a certificate header in the other two
ExpectedHeader(k, first_line) ==
    IF k = 2
    THEN \/ StartsWith(first_line, BEGIN_RSA_PRIVATE_KEY)
         \/ StartsWith(first_line, BEGIN_PRIVATE_KEY)
    ELSE StartsWith(first_line, BEGIN_CERTIFICATE)

\* the publish loop has been left, one way or another
LoopOver == Connected /\ pc \in {"disconnect", "done"}

\* after the successful connect the trace is publish 1, sleep, publish 2,
\* sleep, ..., publish count, and holds no other publish or sleep
PublishLoopExact ==
    LET c == CHOOSE k \in ConnectedAt : TRUE
    IN  /\ NumCalls("publish") = count
        /\ Len(trace) >= c + (IF count >= 1 THEN 2 * count - 1 ELSE 0)
        /\ \A i \in 1..count : trace[c + 2 * i - 1] = Ev("publish", i, TRUE)
        /\ \A i \in 1..(count - 1) : trace[c + 2 * i] = Ev("sleep", interval, TRUE)
        /\ Cardinality({k \in Indices("sleep") : k > c})
              = (IF count >= 1 THEN count - 1 ELSE 0)

----------------------------------------------------------------------------
(* Properties *)

\* C1: in every run with a missing credential file no connect, publish or
\* disconnect is ever called, main() never gets past the file checks and
\* ends with exit status 1; the files are checked in the order ROOT_CA,
\* PRIVATE_KEY, CERTIFICATE and every connect() comes after all three files
\* were found to exist.
C1_MissingFileBlocksNetwork ==
    /\ SomeFileMissing =>
          /\ NumCalls("connect") = 0
          /\ NumCalls("publish") = 0
          /\ NumCalls("disconnect") = 0
          /\ pc \in {"endpoint", "files", "done"}
          /\ (pc = "done" => exitStatus = 1)
    /\ \A i, j \in Indices("isfile") : i < j => trace[i].arg < trace[j].arg
    /\ \A c \in Indices("connect") : \A k \in 1..3 :
          \E j \in Indices("isfile") : j < c /\ trace[j] = Ev("isfile", k, TRUE)

\* C1 witness: ROOT_CA and PRIVATE_KEY exist, CERTIFICATE is missing, all
\* three were checked and the process has ended.
C1_Witness ==
    /\ files[1].exists /\ files[2].exists /\ ~files[3].exists
    /\ pc = "done"
    /\ NumCalls("isfile") = 3
    /\ trace[Len(trace)] = Ev("isfile", 3, FALSE)

\* C2: when connect() succeeds on attempt k of 3 after k-1 failures, the
\* trace from the client build on is fail, sleep 2.0, fail, sleep 3.0, ...,
\* success: k connects, k-1 sleeps of 2.0 * 1.5^(j-1) s each between a failed
\* attempt and the next one, no error raised, and no connect ever after.
C2_RetryThenSuccess ==
    \A c \in ConnectedAt :
        LET k == trace[c].arg
            b == c - (2 * k - 1)
        IN  /\ k \in 1..ATTEMPTS
            /\ b >= 1
            /\ trace[b] = Ev("build", 0, TRUE)
            /\ \A j \in 1..(k - 1) :
                  /\ trace[b + 2 * j - 1] = Ev("connect", j, FALSE)
                  /\ trace[b + 2 * j] = Ev("sleep", ExpectedBackoff(j), TRUE)
            /\ NumCalls("connect") = k
            /\ Cardinality({s \in Indices("sleep") : s < c}) = k - 1
            /\ NumCalls("raise") = 0
            /\ pc \in {"publish", "interval", "disconnect", "done"}

\* C2 witness: connect succeeded on the third attempt and the run went on.
C2_Witness ==
    /\ \E c \in ConnectedAt : trace[c].arg = 3
    /\ pc = "done"

\* C3: when connect() has failed 3 times, it was called exactly 3 times with
\* exactly 2 sleeps, none after the last failure, the error was raised to
\* main(), nothing is published and main() exits with status 1.
C3_RetriesExhausted ==
    Cardinality(FailedConnects) = ATTEMPTS =>
        /\ NumCalls("connect") = ATTEMPTS
        /\ NumCalls("sleep") = ATTEMPTS - 1
        /\ NumCalls("raise") = 1
        /\ trace[Len(trace)] = Ev("raise", ATTEMPTS, FALSE)
        /\ trace[Len(trace) - 1] = Ev("connect", ATTEMPTS, FALSE)
        /\ NumCalls("publish") = 0
        /\ pc \in {"connect_raised", "done"}
        /\ (pc = "done" => exitStatus = 1)

\* C3 witness: three failed connects and the process has ended.
C3_Witness ==
    /\ Cardinality(FailedConnects) = ATTEMPTS
    /\ pc = "done"

\* C4 as stated: after a successful connect, with count >= 0 and no publish
\* failure, the loop makes exactly count publishes with messageId 1..count and
\* exactly max(count-1, 0) sleeps, each between two consecutive publishes.
C4_PublishLoopAnyInterval ==
    (LoopOver /\ count >= 0 /\ FailedPublishes = {}) => PublishLoopExact

\* C4 amended: the same, for an interval that time.sleep accepts (>= 0).
C4_PublishLoop ==
    (LoopOver /\ count >= 0 /\ FailedPublishes = {} /\ interval >= 0)
        => PublishLoopExact

\* C4 witness: MaxCount messages were published 2 s apart and the run ended.
C4_Witness ==
    /\ pc = "done"
    /\ Connected
    /\ count = MaxCount
    /\ interval = 2000
    /\ FailedPublishes = {}
    /\ NumCalls("publish") = MaxCount

\* C5: disconnect() is never called twice and has been called exactly once,
\* as the last call, when a run that connected ends; after a failed publish
\* nothing but the disconnect follows (no retry, no later message, no sleep)
\* and every other publish carries a smaller messageId.
C5_DisconnectOnceAndAbort ==
    /\ NumCalls("disconnect") <= 1
    /\ (pc = "done" /\ Connected) =>
          /\ NumCalls("disconnect") = 1
          /\ trace[Len(trace)].op = "disconnect"
    /\ \A f \in FailedPublishes :
          /\ \A k \in (f + 1)..Len(trace) : trace[k].op = "disconnect"
          /\ \A k \in Indices("publish") : k # f => trace[k].arg < trace[f].arg
          /\ pc \in {"disconnect", "done"}

\* C5 witness: the second of three messages failed and the run ended with
\* one disconnect.
C5_Witness ==
    /\ pc = "done"
    /\ count = 3
    /\ \E f \in FailedPublishes : trace[f].arg = 2
    /\ NumCalls("disconnect") = 1

\* C6 as stated: in every run in which the client was configured,
\* disconnect() is attempted before the process ends, also when all connect
\* attempts were exhausted.
C6_DisconnectUnconditional ==
    (pc = "done" /\ Ev("build", 0, TRUE) \in Events) => NumCalls("disconnect") >= 1

\* C6 amended: a run ends with a disconnect() attempt exactly when connect()
\* succeeded, whether the publish loop completed or errored; a run whose
\* connect attempts are exhausted exits with status 1 without calling
\* disconnect(); a run that connected and has not ended is in the publish
\* loop or at its disconnect.
C6_DisconnectIffConnected ==
    /\ pc = "done" => (NumCalls("disconnect") >= 1 <=> Connected)
    /\ (pc = "done" /\ Cardinality(FailedConnects) = ATTEMPTS) =>
          /\ NumCalls("disconnect") = 0
          /\ exitStatus = 1
    /\ (Connected /\ pc # "done") => pc \in {"publish", "interval", "disconnect"}

\* C6 witness: the client was built, every connect attempt failed and the
\* process ended without a disconnect.
C6_Witness ==
    /\ pc = "done"
    /\ Ev("build", 0, TRUE) \in Events
    /\ Cardinality(FailedConnects) = ATTEMPTS
    /\ NumCalls("disconnect") = 0

\* C7: with the placeholder endpoint no call at all is ever made (no file
\* is checked or opened, no client is built, nothing is connected, published
\* or disconnected) and main() ends at once with exit status 1.
C7_PlaceholderEndpoint ==
    endpoint = ENDPOINT_PLACEHOLDER =>
        /\ trace = <<>>
        /\ pc \in {"endpoint", "done"}
        /\ (pc = "done" => exitStatus = 1)

\* C7 witness: a run with the placeholder endpoint has ended.
C7_Witness ==
    /\ endpoint = ENDPOINT_PLACEHOLDER
    /\ pc = "done"
    /\ exitStatus = 1

\* C8: a finished run has exit status 1 when the endpoint is the placeholder,
\* a credential file is missing or the connect attempts are exhausted, and
\* exit status 0 whenever connect() succeeded, whatever publish and
\* disconnect did afterwards.
C8_ExitStatus ==
    pc = "done" =>
        /\ ( \/ endpoint = ENDPOINT_PLACEHOLDER
             \/ SomeFileMissing
             \/ Cardinality(FailedConnects) = ATTEMPTS ) => exitStatus = 1
        /\ Connected => exitStatus = 0

\* C8 witness: a run that connected, had a publish fail and a disconnect
\* fail, and ended with status 0.
C8_Witness ==
    /\ pc = "done"
    /\ Connected
    /\ FailedPublishes # {}
    /\ Ev("disconnect", 0, FALSE) \in Events
    /\ exitStatus = 0

\* C9 as stated: every payload has its rounded temperature in [20.0, 30.0),
\* its rounded humidity in [50.0, 70.0) and status "active".
C9_HalfOpenRanges ==
    payload.messageId > 0 =>
        /\ payload.temperature >= 200 /\ payload.temperature < 300
        /\ payload.humidity >= 500 /\ payload.humidity < 700
        /\ payload.status = "active"

\* C9 amended: every payload has its rounded temperature in [20.0, 30.0],
\* its rounded humidity in [50.0, 70.0], both ends included, and status
\* "active".
C9_ClosedRanges ==
    payload.messageId > 0 =>
        /\ payload.temperature >= 200 /\ payload.temperature <= 300
        /\ payload.humidity >= 500 /\ payload.humidity <= 700
        /\ payload.status = "active"

\* C9 witness: a draw below 10 whose temperature rounds to 30.0.
C9_Witness ==
    /\ pc = "built"
    /\ rnd[1] < 10 * 1000
    /\ payload.temperature = 300

\* C10: for each of the three credential files, when the file exists and is
\* readable but its first line lacks the PEM header of its category,
\* assert_file prints a warning and returns normally.
C10_AdvisoryFormatCheck ==
    \A k \in 1..3 :
        ( /\ Ev("open", k, TRUE) \in Events
          /\ ~ExpectedHeader(k, Strip(files[k].line)) )
        => /\ Ev("warn", k, TRUE) \in Events
           /\ Ev("checked", k, TRUE) \in Events

====
